---- MODULE Spec2Model ----
(***************************************************************************)
(* Model of the DocX Jinja linter, services/docx_linter.py.                *)
(*                                                                         *)
(* A document's text is a sequence of tokens: block tags and the newline   *)
(* character NL.  Characters that are not part of a block tag do not       *)
(* influence the template parse nor the tag scan and are left out.  A tag  *)
(* is a record [prefix, name]: `{% if x %}` is Tag("", "if") and           *)
(* `{%p if x %}` is Tag("p", "if"), both written with the spacing the      *)
(* source's literals use (`{% endif %}`, `{%p endif %}`).                  *)
(***************************************************************************)
EXTENDS Integers, Sequences, FiniteSets, TLC

(* ------------------------------ bounds --------------------------------- *)

\* longest document text, counted in tokens
MaxLen == 4
\* largest number of undeclared variables docxtpl reports for one document
MaxUndeclared == 1

(* ------------------------------ tokens --------------------------------- *)

Tag(prefix, name) == [prefix |-> prefix, name |-> name]

NL == Tag("", "NL")

\* the tokens documents are drawn from
Alphabet ==
    { Tag("", "if"), Tag("", "endif"), Tag("", "for"), Tag("", "endfor"),
      Tag("p", "if"), Tag("p", "endif"), NL }

\* all sequences over S of length at most n
RECURSIVE SeqsUpTo(_, _)
SeqsUpTo(S, n) ==
    IF n = 0 THEN { <<>> }
    ELSE LET shorter == SeqsUpTo(S, n - 1)
         IN  shorter \cup { Append(s, x) : s \in { t \in shorter : Len(t) = n - 1 }, x \in S }

\* 'a'.split('\n'): the lines of a text, always at least one
RECURSIVE SplitFrom(_, _, _)
SplitFrom(text, i, cur) ==
    IF i > Len(text) THEN << cur >>
    ELSE IF text[i] = NL THEN << cur >> \o SplitFrom(text, i + 1, <<>>)
    ELSE SplitFrom(text, i + 1, Append(cur, text[i]))

SplitLines(text) == SplitFrom(text, 1, <<>>)

\* '\n'.join(lines)
RECURSIVE JoinLines(_)
JoinLines(lines) ==
    IF Len(lines) = 0 THEN <<>>
    ELSE IF Len(lines) = 1 THEN lines[1]
    ELSE lines[1] \o << NL >> \o JoinLines(Tail(lines))

\* tok in line
Contains(line, tok) == \E i \in 1..Len(line) : line[i] = tok

(* ------------------- _find_unmatched_tags: preprocessing --------------- *)

\* the prefixes the four docxtpl_patterns rewrite
docxtpl_patterns == { "p", "tr", "tc", "r" }

\* a rewriting that misses the paragraph prefix
StripPrefixNoP(tok) ==
    IF tok.prefix \in (docxtpl_patterns \ { "p" }) THEN Tag("", tok.name) ELSE tok

\* re.sub of the four patterns on one tag: `{%p if x %}` becomes `{% if x %}`
StripPrefix(tok) ==
    IF tok.prefix \in docxtpl_patterns THEN Tag("", tok.name) ELSE tok

Preprocess(text) == [ i \in 1..Len(text) |-> StripPrefix(text[i]) ]

(* ------------------- jinja2: Environment().from_string ----------------- *)

\* statement keywords of the parser that open a block closed by "end" + name
BlockKeywords == { "if", "for" }

\* the end tag parse_if / parse_for wait for
EndTagOf == [ if |-> "endif", for |-> "endfor" ]

NoError == [ raised |-> FALSE ]

TemplateSyntaxError(msg, lineno, name) ==
    [ raised |-> TRUE, message |-> msg, lineno |-> lineno, name |-> name ]

\* The parser walks the token stream keeping the stack of open blocks.  A
\* block keyword opens a block; a tag that is the end tag of the innermost
\* open block closes it; every other tag is an unknown tag at its line; the
\* end of the stream inside an open block is an unexpected end of template
\* at the line of the end-of-file token.
RECURSIVE ParseFrom(_, _, _, _)
ParseFrom(toks, i, tag_stack, lineno) ==
    IF i > Len(toks)
    THEN IF tag_stack = <<>> THEN NoError
         ELSE TemplateSyntaxError("Unexpected end of template", lineno, "")
    ELSE LET tok == toks[i]
         IN  IF tok = NL THEN ParseFrom(toks, i + 1, tag_stack, lineno + 1)
             ELSE IF tok.prefix = "" /\ tok.name \in BlockKeywords
             THEN ParseFrom(toks, i + 1, Append(tag_stack, tok.name), lineno)
             ELSE IF /\ tok.prefix = ""
                     /\ tag_stack # <<>>
                     /\ tok.name = EndTagOf[tag_stack[Len(tag_stack)]]
             THEN ParseFrom(toks, i + 1, SubSeq(tag_stack, 1, Len(tag_stack) - 1), lineno)
             ELSE TemplateSyntaxError("Encountered unknown tag", lineno,
                                      IF tok.prefix = "" THEN tok.name ELSE tok.prefix)

from_string(text) == ParseFrom(text, 1, <<>>, 1)

(* ------------------- _find_unmatched_tags: the tag stack --------------- *)

\* opening_patterns, in the order the source lists them: the tag whose
\* presence in a line makes re.search succeed, and the tag_type pushed
opening_patterns ==
    << [ tag |-> Tag("", "if"),   tag_type |-> "if" ],
       [ tag |-> Tag("", "for"),  tag_type |-> "for" ],
       [ tag |-> Tag("p", "if"),  tag_type |-> "if" ],
       [ tag |-> Tag("tr", "for"), tag_type |-> "for" ],
       [ tag |-> Tag("tc", "if"), tag_type |-> "if" ],
       [ tag |-> Tag("r", "if"),  tag_type |-> "if" ] >>

\* the frames one line pushes: one per pattern found in the line
RECURSIVE PushesFrom(_, _, _)
PushesFrom(line, line_num, k) ==
    IF k > Len(opening_patterns) THEN <<>>
    ELSE (IF Contains(line, opening_patterns[k].tag)
          THEN << [ tag_type |-> opening_patterns[k].tag_type, line_num |-> line_num ] >>
          ELSE <<>>)
         \o PushesFrom(line, line_num, k + 1)

Top(stack) == stack[Len(stack)]

Pop(stack) == SubSeq(stack, 1, Len(stack) - 1)

\* the closing-tag check of one line, after that line's pushes
CloseLine(line, stack) ==
    IF Contains(line, Tag("", "endif")) \/ Contains(line, Tag("p", "endif"))
    THEN IF stack # <<>> /\ Top(stack).tag_type = "if" THEN Pop(stack) ELSE stack
    ELSE IF Contains(line, Tag("", "endfor")) \/ Contains(line, Tag("tr", "endfor"))
    THEN IF stack # <<>> /\ Top(stack).tag_type = "for" THEN Pop(stack) ELSE stack
    ELSE stack

\* the loop over text_lines: the stack after lines i..
RECURSIVE ScanFrom(_, _, _)
ScanFrom(text_lines, i, stack) ==
    IF i > Len(text_lines) THEN stack
    ELSE ScanFrom(text_lines, i + 1,
                  CloseLine(text_lines[i], stack \o PushesFrom(text_lines[i], i, 1)))

TagStack(full_text) == ScanFrom(SplitLines(full_text), 1, <<>>)

\* the syntax_errors entry built from a TemplateSyntaxError
SyntaxErrorEntry(e, full_text) ==
    LET text_lines == SplitLines(full_text)
        error_line == IF e.lineno # 0 THEN e.lineno ELSE 1
        stack      == TagStack(full_text)
    IN  [ type        |-> "template_syntax_error",
          line_number |->
              IF error_line > Len(text_lines) \/ e.message = "Unexpected end of template"
              THEN IF stack # <<>> THEN Top(stack).line_num ELSE error_line
              ELSE error_line,
          message     |-> e.message,
          name        |-> e.name ]

\* the entry built from any other exception of the parse
ParsingErrorEntry ==
    [ type |-> "parsing_error", line_number |-> 1,
      message |-> "Template parsing error", name |-> "" ]

\* a check that reports every frame left on the tag stack
find_unmatched_tags_every_frame(structured_text, other_exception) ==
    LET full_text == JoinLines(SplitLines(structured_text))
        e         == from_string(Preprocess(full_text))
        stack     == TagStack(full_text)
    IN  IF other_exception = "other" THEN << ParsingErrorEntry >>
        ELSE IF other_exception = "unknown tag" THEN <<>>
        ELSE IF e.raised /\ stack # <<>>
        THEN [ k \in 1..Len(stack) |->
                 [ SyntaxErrorEntry(e, full_text) EXCEPT !.line_number = stack[k].line_num ] ]
        ELSE IF e.raised THEN << SyntaxErrorEntry(e, full_text) >>
        ELSE <<>>

\* _find_unmatched_tags; other_exception is "none", or what an exception of
\* the parse that is no TemplateSyntaxError says: "unknown tag" or "other"
find_unmatched_tags(structured_text, other_exception) ==
    LET full_text == JoinLines(SplitLines(structured_text))
        e         == from_string(Preprocess(full_text))
    IN  IF other_exception = "other" THEN << ParsingErrorEntry >>
        ELSE IF other_exception = "unknown tag" THEN <<>>
        ELSE IF e.raised THEN << SyntaxErrorEntry(e, full_text) >>
        ELSE <<>>

(* ------------------------------ results -------------------------------- *)

\* Python's None for an optional string, and for an optional line number
\* (line numbers start at 1)
None == "None"

NoLine == 0

\* _convert_to_lint_error
convert_to_lint_error(error_dict) ==
    [ error_type  |-> "syntax_error",
      line_number |-> error_dict.line_number,
      tag_name    |-> None,
      message     |-> error_dict.message ]

\* the LintWarning appended for one undeclared variable
UndefinedVariableWarning(k) ==
    [ warning_type |-> "unused_variable", variable |-> k ]

\* len(re.findall(r'{[%{#].*?[%}#]}', structured_text))
jinja_tags_count(structured_text) ==
    Cardinality({ i \in 1..Len(structured_text) : structured_text[i] # NL })

\* a score without the max(0.0, ...)
completeness_score_unclamped(n_errors) ==
    IF n_errors = 0 THEN 100 ELSE 100 - n_errors * 20

\* the completeness_score expression of _convert_json_to_lint_result
completeness_score(n_errors) ==
    IF n_errors = 0 THEN 100
    ELSE IF 100 - n_errors * 20 > 0 THEN 100 - n_errors * 20 ELSE 0

\* a summary that does not count the warnings
LintSummaryNoWarnings(errs, warns, structured_text) ==
    [ total_errors       |-> Len(errs),
      total_warnings     |-> 0,
      template_size      |-> Len(structured_text),
      lines_count        |-> Len(SplitLines(structured_text)),
      jinja_tags_count   |-> jinja_tags_count(structured_text),
      completeness_score |-> completeness_score(Len(errs)) ]

\* the LintSummary of _convert_json_to_lint_result
LintSummary(errs, warns, structured_text) ==
    [ total_errors       |-> Len(errs),
      total_warnings     |-> Len(warns),
      template_size      |-> Len(structured_text),
      lines_count        |-> Len(SplitLines(structured_text)),
      jinja_tags_count   |-> jinja_tags_count(structured_text),
      completeness_score |-> completeness_score(Len(errs)) ]

\* a success flag that lets any warning fail the run
SuccessOnlyWithoutWarnings(errs, warns, opts) == Len(errs) = 0 /\ Len(warns) = 0

\* a success flag that ignores fail_on_warnings
SuccessIgnoringWarnings(errs, warns, opts) == Len(errs) = 0

\* success of _convert_json_to_lint_result
Success(errs, warns, opts) ==
    Len(errs) = 0 /\ (~opts.fail_on_warnings \/ Len(warns) = 0)

\* _convert_json_to_lint_result
convert_json_to_lint_result(errs, warns, structured_text, opts) ==
    [ success  |-> Success(errs, warns, opts),
      errors   |-> errs,
      warnings |-> warns,
      summary  |-> LintSummary(errs, warns, structured_text) ]

\* _create_error_result: the message is "Linting failed: " followed by
\* str(exception)
create_error_result(exception_str) ==
    [ success  |-> FALSE,
      errors   |-> << [ error_type  |-> "document_error",
                        line_number |-> NoLine,
                        tag_name    |-> None,
                        message     |-> exception_str ] >>,
      warnings |-> <<>>,
      summary  |-> [ total_errors       |-> 1,
                     total_warnings     |-> 0,
                     template_size      |-> 0,
                     lines_count        |-> 0,
                     jinja_tags_count   |-> 0,
                     completeness_score |-> 0 ] ]

\* the value of result before lint_docx_file has returned; no returned
\* LintResult is equal to it
NoResult ==
    [ success  |-> FALSE,
      errors   |-> <<>>,
      warnings |-> <<>>,
      summary  |-> [ total_errors       |-> 0,
                     total_warnings     |-> 0,
                     template_size      |-> 0,
                     lines_count        |-> 0,
                     jinja_tags_count   |-> 0,
                     completeness_score |-> 0 ] ]

(* --------------------------- lint_docx_file ---------------------------- *)

VARIABLES
    file,             \* file_content: whether python-docx opens it, and its text
    options,          \* the LintOptions of the call
    pc,               \* the statement lint_docx_file is about to execute
    structured_text,  \* the local structured_text
    syntax_errors,    \* the local syntax_errors
    errors,           \* the local errors
    warnings,         \* the local warnings
    raised,           \* the stages of this call that raised an exception
    result,           \* the LintResult returned, NoResult before the return
    exception,        \* str() of the exception the except clause caught
    previous,         \* what the previous call on the same upload returned
    disk,             \* the debug output under test-data/test-results/ that
                      \* carries the base name of this call's filename
    request,          \* the HTTP request an endpoint of main.py is serving
    response,         \* the HTTP response it returned, NoResponse before
    markdown_content, \* the issue descriptions of the report built from result
    temp,             \* the files of this request's names under temp/, and
                      \* the temporary image files it created
    other             \* where another request for the same filename stands

vars == << file, options, pc, structured_text, syntax_errors, errors, warnings,
           raised, result, exception, previous, disk, request, response,
           markdown_content, temp, other >>

\* lint_docx_file called directly, as the tests of the service do
NoRequest == [ endpoint |-> "none" ]

NoResponse == [ status_code |-> 0, content |-> "none", error_type |-> None ]

\* no report was built
NoMarkdown == <<>>

\* a path under temp/ that names no file
NoTempFile == [ exists |-> FALSE ]

\* nothing of this request's names exists under temp/, and no temporary
\* image file
NoTemp == [ template |-> NoTempFile, pdf |-> NoTempFile, images |-> {} ]

\* no other request is being served
NoOther == "none"

\* linter_options of process-template-document is declared Optional[Json]:
\* when given, the options handed to lint_docx_file are the parsed JSON
\* object, a dict, which has no attribute check_undefined_vars
IsDict(opts) == "dict" \in DOMAIN opts

\* no debug output of that name was written yet
NoFile == [ exists |-> FALSE, writer |-> "nobody", text |-> <<>> ]

\* open(path, 'w') and the writes: the files now hold what the writer
\* derived from its structured text
Saved(writer, text) == [ exists |-> TRUE, writer |-> writer, text |-> text ]

\* a text taken from the debug output when there is one
text_read_back(text, files) == IF files.exists THEN files.text ELSE text

\* the structured_text that lint_docx_file hands to the conversion: its own
\* local, whatever the debug output holds
text_for_result(text, files) == text

\* no exception was caught
NoException == ""

\* the names tempfile.NamedTemporaryFile may give the copy of the upload
TempNames == { "tmpa.docx", "tmpb.docx" }

\* str() of the PackageNotFoundError python-docx raises for a file that is
\* no zip container: it quotes the path it was given
PackageNotFoundAt ==
    [ n \in TempNames |->
        IF n = "tmpa.docx" THEN "Package not found at 'tmpa.docx'"
        ELSE "Package not found at 'tmpb.docx'" ]

\* no call came before this one
NoPrevious == [ result |-> NoResult, raised |-> {}, exception |-> NoException ]

\* LintOptions(): the defaults of the fields the linter reads
DefaultOptions == [ fail_on_warnings |-> FALSE, check_undefined_vars |-> TRUE ]

Files ==
    { [ opens |-> TRUE, text |-> t ] : t \in SeqsUpTo(Alphabet, MaxLen) }
        \cup { [ opens |-> FALSE, text |-> <<>> ] }

Init ==
    /\ file \in Files
    /\ options \in [ fail_on_warnings : BOOLEAN, check_undefined_vars : BOOLEAN ]
    /\ pc = "extract_structured_text"
    /\ structured_text = <<>>
    /\ syntax_errors = <<>>
    /\ errors = <<>>
    /\ warnings = <<>>
    /\ raised = {}
    /\ result = NoResult
    /\ exception = NoException
    /\ previous = NoPrevious
    /\ disk = NoFile
    /\ request = NoRequest
    /\ response = NoResponse
    /\ markdown_content = NoMarkdown
    /\ temp = NoTemp
    /\ other = NoOther

\* an except clause that lets everything but a DocumentExtractionException through
CatchOnlyExtraction(stage) ==
    IF stage = "extract_xml_with_docxtpl" THEN "except" ELSE "propagated"

\* `except Exception` of lint_docx_file: where control goes when a stage raises
Catch(stage) == "except"

\* Stage 1.  _extract_structured_text returns "" when opening the container
\* or walking its paragraphs and tables raises.
ExtractStructuredText ==
    /\ pc = "extract_structured_text"
    /\ \E walk_raises \in BOOLEAN :
          IF file.opens /\ ~walk_raises
          THEN /\ structured_text' = file.text
               /\ raised' = raised
          ELSE /\ structured_text' = <<>>
               /\ raised' = raised \cup { "extract_structured_text" }
    /\ pc' = "find_unmatched_tags"
    /\ UNCHANGED << file, options, syntax_errors, errors, warnings, result >>
    /\ UNCHANGED << exception, previous, disk, request, response >>
    /\ UNCHANGED << markdown_content, temp, other >>

\* Stage 2.
FindUnmatchedTags ==
    /\ pc = "find_unmatched_tags"
    /\ \E other_exception \in { "none", "unknown tag", "other" } :
          /\ syntax_errors' = find_unmatched_tags(structured_text, other_exception)
          /\ raised' = IF other_exception = "none" THEN raised
                        ELSE raised \cup { "find_unmatched_tags" }
    /\ pc' = "stage3"
    /\ UNCHANGED << file, options, structured_text, errors, warnings, result >>
    /\ UNCHANGED << exception, previous, disk, request, response >>
    /\ UNCHANGED << markdown_content, temp, other >>

\* a stage 3 that goes on with the docxtpl stages
after_syntax_errors_continue == "save_debug_output"

\* where stage 3 goes once the errors are recorded: straight to the result
\* creation, the docxtpl stages skipped
after_syntax_errors == "convert_json_to_lint_result"

\* Stage 3, syntax errors found: errors.extend(...), the debug files (whose
\* exceptions _save_debug_output_basic and _save_intermediate_json swallow),
\* then on to the result.
ReportSyntaxErrors ==
    /\ pc = "stage3"
    /\ syntax_errors # <<>>
    /\ errors' = errors \o [ i \in 1..Len(syntax_errors) |->
                                convert_to_lint_error(syntax_errors[i]) ]
    /\ \E save_raises \in BOOLEAN :
          /\ pc' = after_syntax_errors
          /\ disk' = IF save_raises THEN disk ELSE Saved("this", structured_text)
    /\ UNCHANGED << file, options, structured_text, syntax_errors, warnings,
                    raised, result >>
    /\ UNCHANGED << exception, previous, request, response >>
    /\ UNCHANGED << markdown_content, temp, other >>

\* Stage 4, syntax clean: docxtpl opens the same bytes.
ExtractXmlWithDocxtpl ==
    /\ pc = "stage3"
    /\ syntax_errors = <<>>
    /\ \E docxtpl_raises \in BOOLEAN :
          IF file.opens /\ ~docxtpl_raises
          THEN /\ pc' = "process_extended_tags"
               /\ raised' = raised
               /\ exception' = exception
          ELSE /\ pc' = Catch("extract_xml_with_docxtpl")
               /\ raised' = raised \cup { "extract_xml_with_docxtpl" }
               /\ IF file.opens
                  THEN exception' = "Failed to extract XML"
                  ELSE \E temp_file_path \in TempNames :
                          exception' = PackageNotFoundAt[temp_file_path]
    /\ UNCHANGED << file, options, structured_text, syntax_errors, errors,
                    warnings, result, previous, disk, request, response >>
    /\ UNCHANGED << markdown_content, temp, other >>

\* Stage 5.  _process_extended_tags falls back to the raw XML when patch_xml raises.
ProcessExtendedTags ==
    /\ pc = "process_extended_tags"
    /\ \E patch_raises \in BOOLEAN : pc' = "save_debug_output"
    /\ UNCHANGED << file, options, structured_text, syntax_errors, errors,
                    warnings, raised, result >>
    /\ UNCHANGED << exception, previous, disk, request, response >>
    /\ UNCHANGED << markdown_content, temp, other >>

\* Stages 6 and 7.  _save_debug_output swallows its exceptions.
SaveDebugOutput ==
    /\ pc = "save_debug_output"
    /\ \E save_raises \in BOOLEAN :
          /\ pc' = "find_missing_variables"
          /\ disk' = IF save_raises THEN disk ELSE Saved("this", structured_text)
    /\ UNCHANGED << file, options, structured_text, syntax_errors, errors,
                    warnings, raised, result >>
    /\ UNCHANGED << exception, previous, request, response >>
    /\ UNCHANGED << markdown_content, temp, other >>

\* the number of variables get_undeclared_template_variables finds in the
\* document: the document's own count where the upload records one, else n
UndeclaredIn(f, n) == IF "undeclared" \in DOMAIN f THEN f.undeclared ELSE n

\* Stage 8.  One warning per undeclared variable; _find_missing_variables
\* returns [] when docxtpl raises.  Reading options.check_undefined_vars
\* raises AttributeError when options is a dict.
FindMissingVariables ==
    /\ pc = "find_missing_variables"
    /\ IF IsDict(options)
       THEN /\ pc' = Catch("check_undefined_vars")
            /\ raised' = raised \cup { "check_undefined_vars" }
            /\ exception' = "'dict' object has no attribute 'check_undefined_vars'"
            /\ warnings' = warnings
       ELSE /\ IF options.check_undefined_vars
               THEN \E n \in 0..MaxUndeclared, vars_raise \in BOOLEAN :
                      IF vars_raise
                      THEN /\ warnings' = warnings
                           /\ raised' = raised \cup { "find_missing_variables" }
                      ELSE /\ warnings' = warnings \o
                                  [ k \in 1..UndeclaredIn(file, n) |->
                                      UndefinedVariableWarning(k) ]
                           /\ raised' = raised
               ELSE /\ warnings' = warnings
                    /\ raised' = raised
            /\ pc' = "convert_json_to_lint_result"
            /\ exception' = exception
    /\ UNCHANGED << file, options, structured_text, syntax_errors, errors, result >>
    /\ UNCHANGED << previous, disk, request, response >>
    /\ UNCHANGED << markdown_content, temp, other >>

\* Stages 9 to 11 and the return: the result is built from errors, warnings,
\* structured_text and options; _save_intermediate_json and
\* _save_intermediate_markdown swallow their exceptions.
ConvertJsonToLintResult ==
    /\ pc = "convert_json_to_lint_result"
    /\ \E save_raises \in BOOLEAN :
          disk' = IF save_raises THEN disk ELSE Saved("this", structured_text)
    /\ \E convert_raises \in BOOLEAN :
          IF convert_raises
          THEN /\ pc' = Catch("convert_json_to_lint_result")
               /\ raised' = raised \cup { "convert_json_to_lint_result" }
               /\ result' = result
               /\ exception' = "Failed to convert"
          ELSE /\ pc' = "returned"
               /\ raised' = raised
               /\ exception' = exception
               /\ result' = convert_json_to_lint_result(
                                 errors, warnings,
                                 text_for_result(structured_text, disk), options)
    /\ UNCHANGED << file, options, structured_text, syntax_errors, errors, warnings,
                    previous, request, response >>
    /\ UNCHANGED << markdown_content, temp, other >>

\* The except clause: return self._create_error_result(...)
CreateErrorResult ==
    /\ pc = "except"
    /\ result' = create_error_result(exception)
    /\ pc' = "returned"
    /\ UNCHANGED << file, options, structured_text, syntax_errors, errors,
                    warnings, raised >>
    /\ UNCHANGED << exception, previous, disk, request, response >>
    /\ UNCHANGED << markdown_content, temp, other >>

Next ==
    \/ ExtractStructuredText
    \/ FindUnmatchedTags
    \/ ReportSyntaxErrors
    \/ ExtractXmlWithDocxtpl
    \/ ProcessExtendedTags
    \/ SaveDebugOutput
    \/ FindMissingVariables
    \/ ConvertJsonToLintResult
    \/ CreateErrorResult

Spec == Init /\ [][Next]_vars

(* ------------------------- vocabulary of the claims -------------------- *)

Returned == pc = "returned"

\* no stage of the call raised an exception
NoStageRaised == raised = {}

\* the tags of a text, newlines dropped
TagsOf(text) == SelectSeq(text, LAMBDA t : t # NL)

IsOpen(t) == t.name \in { "if", "for" }

\* c closes o: same name, and with strict also the same dialect prefix
Closes(o, c, strict) ==
    /\ \/ o.name = "if" /\ c.name = "endif"
       \/ o.name = "for" /\ c.name = "endfor"
    /\ strict => o.prefix = c.prefix

\* what is left of a tag sequence once every open tag directly followed by
\* its close tag has been removed, again and again
RECURSIVE Cancel(_, _)
Cancel(s, strict) ==
    LET pairs == { i \in 1..(Len(s) - 1) : Closes(s[i], s[i + 1], strict) }
    IN  IF pairs = {} THEN s
        ELSE LET i == CHOOSE j \in pairs : \A k \in pairs : j <= k
             IN  Cancel(SubSeq(s, 1, i - 1) \o SubSeq(s, i + 2, Len(s)), strict)

\* every open tag has its own correctly named, correctly prefixed close,
\* correctly nested
WellFormed(text) == Cancel(TagsOf(text), TRUE) = <<>>

\* the same, dialect prefixes ignored
WellFormedByName(text) == Cancel(TagsOf(text), FALSE) = <<>>

\* each line of the text holds at most one tag
OneTagPerLine(text) ==
    \A i \in 1..Len(SplitLines(text)) : Len(SplitLines(text)[i]) <= 1

\* the number of errors of a result that have the given kind
CountKind(res, kind) ==
    Cardinality({ i \in 1..Len(res.errors) : res.errors[i].error_type = kind })

\* N >= 1 lines, each one paired-open tag and nothing else
IsOpenChain(text) ==
    /\ text # <<>>
    /\ \A i \in 1..Len(SplitLines(text)) :
          /\ Len(SplitLines(text)[i]) = 1
          /\ IsOpen(SplitLines(text)[i][1])

\* no content: nothing but line breaks
Blank(text) == TagsOf(text) = <<>>

(* ------------------------------- claims -------------------------------- *)

\* C1: in a lint run, every frame still on the tag stack at the end of the
\* document becomes exactly one error of kind UnclosedTag that carries the
\* frame's tag name and is reported at the frame's opening line.
C1_UnclosedFramesReported ==
    (Returned /\ NoStageRaised) =>
        LET stack == TagStack(structured_text)
        IN  /\ CountKind(result, "unclosed_tag") = Len(stack)
            /\ \A k \in 1..Len(stack) :
                  \E i \in 1..Len(result.errors) :
                     /\ result.errors[i].error_type = "unclosed_tag"
                     /\ result.errors[i].tag_name = stack[k].tag_type
                     /\ result.errors[i].line_number = stack[k].line_num

\* C2: a chain of N >= 1 nested paired-open tags, one per line and no close
\* tag, yields exactly N UnclosedTag errors, the k-th at line k.
C2_OpenChainYieldsNUnclosed ==
    (Returned /\ NoStageRaised /\ IsOpenChain(structured_text)) =>
        LET n == Len(SplitLines(structured_text))
        IN  /\ Len(result.errors) = n
            /\ \A k \in 1..n :
                  /\ result.errors[k].error_type = "unclosed_tag"
                  /\ result.errors[k].line_number = k

\* C3: `{% if a %}{% endfor %}{% endif %}` yields exactly one MismatchedTag
\* error and no UnclosedTag error.
C3_MismatchDoesNotPop ==
    ( /\ Returned
      /\ NoStageRaised
      /\ TagsOf(structured_text) = << Tag("", "if"), Tag("", "endfor"), Tag("", "endif") >> )
    => /\ CountKind(result, "mismatched_tag") = 1
       /\ CountKind(result, "unclosed_tag") = 0

C7_AlwaysReturnsResult ==
    /\ pc # "propagated"
    /\ Returned => result # NoResult
    /\ ~Returned => ENABLED Next

\* C7 witness: a call in which both the text extraction and the result
\* conversion raised has returned a result.
C7_Witness ==
    /\ Returned
    /\ "convert_json_to_lint_result" \in raised
    /\ "extract_structured_text" \in raised
    /\ result # NoResult

C9_SummaryCountsMatch ==
    Returned =>
        /\ result.summary.total_errors = Len(result.errors)
        /\ result.summary.total_warnings = Len(result.warnings)

\* C9 witness: a result with a warning was returned.
C9_Witness ==
    /\ Returned
    /\ Len(result.warnings) >= 1
    /\ result.summary.total_warnings >= 1

\* C10: in every returned result, success is true exactly when there are
\* zero errors and, if fail_on_warnings is set, zero warnings.
C10_SuccessDefinition ==
    Returned =>
        ( result.success <=>
            /\ Len(result.errors) = 0
            /\ options.fail_on_warnings => Len(result.warnings) = 0 )

\* C10 witness: with fail_on_warnings set, a result without errors but with
\* a warning was returned with success = false.
C10_Witness ==
    /\ Returned
    /\ options.fail_on_warnings
    /\ result.errors = <<>>
    /\ Len(result.warnings) >= 1
    /\ ~result.success

(* ------------------ _convert_json_to_lint_result alone ------------------ *)

\* most errors, most warnings and longest text handed to the conversion
MaxErrors == 6
MaxWarnings == 2
MaxScoreLen == 2

\* an entry of the errors list: any syntax_errors entry after conversion
AnyLintError(k) ==
    convert_to_lint_error([ type |-> "template_syntax_error", line_number |-> k,
                            message |-> "Unexpected end of template", name |-> "" ])

\* the call convert_json_to_lint_result(errors, warnings, structured_text,
\* options) of lint_docx_file, for every argument list within the bounds
ScoreInit ==
    /\ file \in { [ opens |-> TRUE, text |-> t ] : t \in SeqsUpTo(Alphabet, MaxScoreLen) }
    /\ options \in [ fail_on_warnings : BOOLEAN, check_undefined_vars : BOOLEAN ]
    /\ pc = "convert_json_to_lint_result"
    /\ structured_text = file.text
    /\ syntax_errors = <<>>
    /\ errors \in { [ k \in 1..n |-> AnyLintError(k) ] : n \in 0..MaxErrors }
    /\ warnings \in { [ k \in 1..n |-> UndefinedVariableWarning(k) ] : n \in 0..MaxWarnings }
    /\ raised = {}
    /\ result = NoResult
    /\ exception = NoException
    /\ previous = NoPrevious
    /\ disk = NoFile
    /\ request = NoRequest
    /\ response = NoResponse
    /\ markdown_content = NoMarkdown
    /\ temp = NoTemp
    /\ other = NoOther

ScoreNext ==
    \/ ConvertJsonToLintResult
    \/ CreateErrorResult

ScoreSpec == ScoreInit /\ [][ScoreNext]_vars

\* the score section 4.6 of the specification describes
Clamp(x, lo, hi) == IF x < lo THEN lo ELSE IF x > hi THEN hi ELSE x

Min(a, b) == IF a < b THEN a ELSE b

DocumentedScore(n_errors, n_warnings, tag_count) ==
    Clamp(100 - 15 * n_errors - 5 * n_warnings + Min(10, 2 * tag_count), 0, 100)

\* the score of the result the conversion builds for the text of this call
\* with n_errors errors and n_warnings warnings
ScoreFor(n_errors, n_warnings) ==
    convert_json_to_lint_result([ k \in 1..n_errors |-> AnyLintError(k) ],
                                [ k \in 1..n_warnings |-> UndefinedVariableWarning(k) ],
                                structured_text, options).summary.completeness_score

\* C11: the completeness score of every returned result lies in [0, 100],
\* and for a fixed text (hence a fixed tag count) the score the conversion
\* gives never increases when the number of errors or of warnings increases.
C11_ScoreBoundedAndMonotone ==
    Returned =>
        /\ result.summary.completeness_score >= 0
        /\ result.summary.completeness_score <= 100
        /\ raised = {} =>
              \A e \in Len(errors)..(MaxErrors + 1), w \in Len(warnings)..(MaxWarnings + 1) :
                  ScoreFor(e, w) <= result.summary.completeness_score

\* C11 witness: a result with enough errors for the lower clamp to act was
\* returned, with a warning.
C11_Witness ==
    /\ Returned
    /\ raised = {}
    /\ Len(result.errors) >= 6
    /\ Len(result.warnings) >= 1
    /\ result.summary.completeness_score = 0

\* C12: for a non-blank text, the completeness score of the result is
\* clamp(100 - 15*errors - 5*warnings + min(10, 2*tag_count), 0, 100).
C12_ScoreIsDocumentedFormula ==
    ( Returned /\ raised = {} /\ ~Blank(structured_text) ) =>
        result.summary.completeness_score =
            DocumentedScore(Len(result.errors), Len(result.warnings),
                            result.summary.jinja_tags_count)

MaxQualityLen == 2

\* the nesting of test_excessive_nesting: range(15)
ExcessiveNesting == 15

\* the lengths of a line in characters: a short line, and the long line of
\* test_long_line_warning
LineChars == { 40, 200 }

\* LintOptions.max_line_length: the default, and the value of
\* test_long_line_warning
MaxLineLengths == { 200, 50 }

\* n lines `{% if c %}`, then n lines `{% endif %}`, as test_excessive_nesting
\* builds them
RECURSIVE Repeat(_, _)
Repeat(s, n) == IF n = 0 THEN <<>> ELSE s \o Repeat(s, n - 1)

NestedText(n) ==
    Repeat(<< Tag("", "if"), NL >>, n) \o Repeat(<< Tag("", "endif"), NL >>, n)

\* the uploads of this specification: besides the text, the number of
\* characters of each of its lines
QualityFiles ==
    UNION { { [ opens |-> TRUE, text |-> t, line_chars |-> c ] :
                c \in [ 1..Len(SplitLines(t)) -> LineChars ] } :
            t \in SeqsUpTo(Alphabet, MaxQualityLen) }
      \cup { [ opens |-> TRUE, text |-> NestedText(n),
               line_chars |-> [ i \in 1..Len(SplitLines(NestedText(n))) |-> 40 ] ] :
             n \in 1..ExcessiveNesting }

QualityInit ==
    /\ file \in QualityFiles
    /\ options \in [ fail_on_warnings : BOOLEAN, check_undefined_vars : BOOLEAN,
                     max_line_length : MaxLineLengths ]
    /\ pc = "extract_structured_text"
    /\ structured_text = <<>>
    /\ syntax_errors = <<>>
    /\ errors = <<>>
    /\ warnings = <<>>
    /\ raised = {}
    /\ result = NoResult
    /\ exception = NoException
    /\ previous = NoPrevious
    /\ disk = NoFile
    /\ request = NoRequest
    /\ response = NoResponse
    /\ markdown_content = NoMarkdown
    /\ temp = NoTemp
    /\ other = NoOther

\* lint_docx_file on these uploads
QualitySpec == QualityInit /\ [][Next]_vars

\* the lines of the upload longer than options.max_line_length
LongLinesOf(f, opts) ==
    { i \in DOMAIN f.line_chars : f.line_chars[i] > opts.max_line_length }

\* the number of warnings of a result that have the given kind
CountWarningKind(res, kind) ==
    Cardinality({ i \in 1..Len(res.warnings) : res.warnings[i].warning_type = kind })

\* the number of block-opening tags of text[i..] that take the nesting depth
\* beyond the threshold, depth being the nesting depth before text[i]
RECURSIVE OpensBeyond(_, _, _, _)
OpensBeyond(text, i, depth, threshold) ==
    IF i > Len(text) THEN 0
    ELSE IF text[i] = NL THEN OpensBeyond(text, i + 1, depth, threshold)
    ELSE IF IsOpen(text[i])
    THEN (IF depth + 1 > threshold THEN 1 ELSE 0)
         + OpensBeyond(text, i + 1, depth + 1, threshold)
    ELSE OpensBeyond(text, i + 1, IF depth > 0 THEN depth - 1 ELSE 0, threshold)

\* C14: the quality checks run even when the syntax stage found errors: a
\* document with both a syntax error and an over-long line yields both the
\* error and a LongLine warning.
C14_QualityChecksRunAfterSyntaxErrors ==
    ( /\ Returned
      /\ NoStageRaised
      /\ from_string(Preprocess(file.text)).raised
      /\ LongLinesOf(file, options) # {} ) =>
        /\ Len(result.errors) >= 1
        /\ CountWarningKind(result, "long_line") >= 1

\* C15: every line longer than options.max_line_length produces a LongLine
\* warning: the result holds one LongLine warning per such line, exactly one
\* for a document with one 200-character line and max_line_length = 50.
C15_LongLineWarningPerLongLine ==
    ( Returned /\ NoStageRaised ) =>
        CountWarningKind(result, "long_line") = Cardinality(LongLinesOf(file, options))

\* C16: each block-opening tag that takes the nesting depth beyond the
\* threshold 10 produces one NestedError; 15 nested `{% if %}` blocks, all
\* closed, yield at least one.
C16_NestedErrorBeyondThreshold ==
    ( Returned /\ NoStageRaised ) =>
        CountKind(result, "nested_error") = OpensBeyond(file.text, 1, 0, 10)

(* ------------------- the same upload linted a second time --------------- *)

\* longest text of an upload that is linted twice, counted in tokens
MaxRerunLen == 2

\* the uploads of this specification: the document fixes the number of its
\* undeclared variables
RerunFiles ==
    { [ opens |-> TRUE, text |-> t, undeclared |-> u ] :
        t \in SeqsUpTo(Alphabet, MaxRerunLen), u \in 0..MaxUndeclared }
      \cup { [ opens |-> FALSE, text |-> <<>>, undeclared |-> 0 ] }

RerunInit ==
    /\ file \in RerunFiles
    /\ options \in [ fail_on_warnings : BOOLEAN, check_undefined_vars : BOOLEAN ]
    /\ pc = "extract_structured_text"
    /\ structured_text = <<>>
    /\ syntax_errors = <<>>
    /\ errors = <<>>
    /\ warnings = <<>>
    /\ raised = {}
    /\ result = NoResult
    /\ exception = NoException
    /\ previous = NoPrevious
    /\ disk = NoFile
    /\ request = NoRequest
    /\ response = NoResponse
    /\ markdown_content = NoMarkdown
    /\ temp = NoTemp
    /\ other = NoOther

\* The caller keeps the result and calls linter_service.lint_docx_file again
\* with the same file_content, filename and options: the locals of the new
\* call start afresh, the service object holds nothing of the first call.
LintAgain ==
    /\ pc = "returned"
    /\ previous = NoPrevious
    /\ previous' = [ result |-> result, raised |-> raised, exception |-> exception ]
    /\ pc' = "extract_structured_text"
    /\ structured_text' = <<>>
    /\ syntax_errors' = <<>>
    /\ errors' = <<>>
    /\ warnings' = <<>>
    /\ raised' = {}
    /\ result' = NoResult
    /\ exception' = NoException
    /\ UNCHANGED << file, options, disk, request, response >>
    /\ UNCHANGED << markdown_content, temp, other >>

RerunNext ==
    \/ Next
    \/ LintAgain

RerunSpec == RerunInit /\ [][RerunNext]_vars

\* the second call has returned
SecondReturned == Returned /\ previous # NoPrevious

\* the same stages raised in both calls, and the template parse raised
\* nothing but a TemplateSyntaxError
SameFailures == raised = previous.raised /\ "find_unmatched_tags" \notin raised

\* C17: two runs on the same bytes, filename and options, one after the
\* other on the same service instance, return identical errors, warnings,
\* success and summary (processing_time_ms aside), the same stages failing
\* in both.
C17_SecondRunIdentical ==
    ( SecondReturned /\ SameFailures ) => result = previous.result

(* --------------- another call on the shared service object -------------- *)

\* longest text of the upload, and of the other call's upload, in tokens
MaxConcurrentLen == 1
MaxOtherLen == 1

ConcurrentFiles ==
    { [ opens |-> TRUE, text |-> t, undeclared |-> u ] :
        t \in SeqsUpTo(Alphabet, MaxConcurrentLen), u \in 0..MaxUndeclared }
      \cup { [ opens |-> FALSE, text |-> <<>>, undeclared |-> 0 ] }

\* the structured texts of the other call
OtherTexts == SeqsUpTo({ Tag("", "if") }, MaxOtherLen)

ConcurrentInit ==
    /\ file \in ConcurrentFiles
    /\ options = DefaultOptions
    /\ pc = "extract_structured_text"
    /\ structured_text = <<>>
    /\ syntax_errors = <<>>
    /\ errors = <<>>
    /\ warnings = <<>>
    /\ raised = {}
    /\ result = NoResult
    /\ exception = NoException
    /\ previous = NoPrevious
    /\ disk = NoFile
    /\ request = NoRequest
    /\ response = NoResponse
    /\ markdown_content = NoMarkdown
    /\ temp = NoTemp
    /\ other = NoOther

\* Another request's lint_docx_file on the module-level linter_service, for
\* an upload with the same filename, scheduled before this call, after it,
\* or at one of its awaits.  Its locals are its own; self.env, paired_tags
\* and standalone_tags are only read; its temporary copies have names of
\* their own; what it shares with this call are the debug output paths,
\* which it overwrites.
OtherCall ==
    /\ previous # NoPrevious
    /\ pc # "returned"
    /\ \E other_text \in OtherTexts :
          /\ disk' = Saved("other", other_text)
          /\ disk' # disk
    /\ UNCHANGED << file, options, pc, structured_text, syntax_errors, errors,
                    warnings, raised, result, exception, previous, request,
                    response >>
    /\ UNCHANGED << markdown_content, temp, other >>

\* the call alone, then the same call again with the other call interleaved
ConcurrentNext ==
    \/ Next
    \/ LintAgain
    \/ OtherCall

ConcurrentSpec == ConcurrentInit /\ [][ConcurrentNext]_vars

\* the same stages raised in both calls in the same way
SameEnvironment == SameFailures /\ exception = previous.exception

\* C18: concurrent lint invocations on the shared service are independent
\* under every interleaving, same filename and same debug output paths
\* included: a call interleaved with another call returns what it returns
\* alone, the same stages failing in the same way.
C18_ConcurrentCallsIndependent ==
    ( SecondReturned /\ SameEnvironment ) => result = previous.result

\* C18 witness: the call returned a result built from its own text after the
\* other call, for a different text, had overwritten the debug output.
C18_Witness ==
    /\ SecondReturned
    /\ SameEnvironment
    /\ disk.writer = "other"
    /\ disk.text # structured_text
    /\ result.summary.template_size = Len(structured_text)
    /\ result.summary.template_size >= 1

(* ----------------------- the endpoints of main.py ----------------------- *)

\* longest text of an uploaded document, counted in tokens
MaxEndpointLen == 1

\* 10 * 1024 * 1024, the limit of lint-docx-template, and 50 * 1024 * 1024,
\* the limit of process-template-document, in bytes
MaxLintBytes == 10485760

MaxProcessBytes == 52428800

\* UploadFile.filename: none or empty, and names with and without the
\* extension
Filenames == { "", "notes.txt", "template.docx", "TEMPLATE.DOCX" }

\* filename.lower().endswith('.docx')
EndsWithDocx(filename) == filename \in { "template.docx", "TEMPLATE.DOCX" }

FileSizes == { 0, 1, MaxLintBytes, MaxLintBytes + 1, MaxProcessBytes + 1 }

\* the checks of lint-docx-template with the size checks before the
\* extension check
upload_error_size_first(filename, file_size) ==
    IF filename = "" THEN "missing_file"
    ELSE IF file_size > MaxLintBytes THEN "file_too_large"
    ELSE IF file_size = 0 THEN "empty_file"
    ELSE IF ~EndsWithDocx(filename) THEN "invalid_file_type"
    ELSE "none"

\* the input validation of lint_docx_template: the error_type of the first
\* check that fails, "none" when the upload passes
upload_error(filename, file_size) ==
    IF filename = "" THEN "missing_file"
    ELSE IF ~EndsWithDocx(filename) THEN "invalid_file_type"
    ELSE IF file_size > MaxLintBytes THEN "file_too_large"
    ELSE IF file_size = 0 THEN "empty_file"
    ELSE "none"

\* create_error_response
create_error_response(error_type, status_code) ==
    [ status_code |-> status_code, content |-> "error", error_type |-> error_type ]

\* a response without error_type
Response(status_code, content) ==
    [ status_code |-> status_code, content |-> content, error_type |-> None ]

\* the answer to a failed template validation before it was turned into 200
lint_outcome_status_400(success) == IF success THEN 200 ELSE 400

\* the status of the responses that carry a lint outcome
lint_outcome_status(success) == 200

\* most images a request carries
MaxImages == 2

\* images of process-template-document is declared Optional[Json]: the
\* parsed JSON object, whose values, one per image, are JSON objects, dicts
ImagesData(n) == [ k \in 1..n |-> [ dict |-> "image" ] ]

\* the requests: the upload's name and size, the response format asked for,
\* and for process-template-document the template data, linter_options
\* (absent, the empty object, an object asking for JSON, another object)
\* and the images
Requests ==
    [ endpoint : { "lint_docx_template" }, filename : Filenames,
      file_size : FileSizes, response_format : { "pdf", "json" } ]
      \cup
    [ endpoint : { "process_document_template" }, filename : Filenames,
      file_size : FileSizes, data : { "empty", "given" },
      linter_options : { "None", "{}", "json", "verbose" },
      images : { ImagesData(n) : n \in 0..MaxImages } ]

EndpointFiles ==
    { [ opens |-> TRUE, text |-> t ] : t \in SeqsUpTo(Alphabet, MaxEndpointLen) }
        \cup { [ opens |-> FALSE, text |-> <<>> ] }

EndpointInit ==
    /\ request \in Requests
    /\ file \in EndpointFiles
    /\ request.file_size = 0 => ~file.opens
    /\ options = DefaultOptions
    /\ pc = "request"
    /\ structured_text = <<>>
    /\ syntax_errors = <<>>
    /\ errors = <<>>
    /\ warnings = <<>>
    /\ raised = {}
    /\ result = NoResult
    /\ exception = NoException
    /\ previous = NoPrevious
    /\ disk = NoFile
    /\ response = NoResponse
    /\ markdown_content = NoMarkdown
    /\ temp = NoTemp
    /\ other = NoOther

\* lint_docx_template up to the call of the linter: the input validation,
\* with document.read() between the extension check and the size checks
LintDocxTemplate ==
    /\ pc = "request"
    /\ request.endpoint = "lint_docx_template"
    /\ LET error_type == upload_error(request.filename, request.file_size)
       IN  IF error_type \in { "missing_file", "invalid_file_type" }
           THEN /\ response' = create_error_response(error_type, 400)
                /\ pc' = "responded"
                /\ UNCHANGED << raised, options >>
           ELSE \E read_raises \in BOOLEAN, fail_on_warnings \in BOOLEAN,
                   check_undefined_vars \in BOOLEAN :
                   IF read_raises
                   THEN /\ response' = create_error_response("linting_error", 500)
                        /\ pc' = "responded"
                        /\ raised' = raised \cup { "document.read" }
                        /\ UNCHANGED options
                   ELSE IF error_type # "none"
                   THEN /\ response' = create_error_response(error_type, 400)
                        /\ pc' = "responded"
                        /\ UNCHANGED << raised, options >>
                   ELSE /\ options' = [ fail_on_warnings     |-> fail_on_warnings,
                                        check_undefined_vars |-> check_undefined_vars ]
                        /\ pc' = "extract_structured_text"
                        /\ UNCHANGED << raised, response >>
    /\ UNCHANGED << file, structured_text, syntax_errors, errors, warnings, result,
                    exception, previous, disk, request >>
    /\ UNCHANGED << markdown_content, temp, other >>

\* what makes _generate_lint_pdf_report leave its try block: GOTENBERG_API_URL
\* not set, a converter status other than 200, a converter answer that is
\* no PDF, and any other exception (building the markdown, writing the
\* files, the request itself)
ReportFailures ==
    { "gotenberg_not_configured", "gotenberg_conversion_failed",
      "invalid_pdf_response", "report_exception" }

\* fallback_data of the JSON fallback
fallback_data(lint_result) ==
    [ success |-> lint_result.success,
      errors  |-> [ i \in 1..Len(lint_result.errors) |->
                      [ line_number |-> lint_result.errors[i].line_number,
                        error_type  |-> lint_result.errors[i].error_type,
                        message     |-> lint_result.errors[i].message ] ],
      summary |-> [ total_errors       |-> lint_result.summary.total_errors,
                    total_warnings     |-> lint_result.summary.total_warnings,
                    completeness_score |-> lint_result.summary.completeness_score ] ]

\* a report generation that raises its PDFConversionError for a missing
\* converter URL outside the try block, so that the endpoint's own except
\* clause answers it
generate_lint_pdf_report_raising(lint_result, failure) ==
    IF failure = "none"
    THEN Response(lint_outcome_status(lint_result.success), "pdf report")
    ELSE IF failure = "gotenberg_not_configured"
    THEN create_error_response("gotenberg_not_configured", 500)
    ELSE [ status_code   |-> lint_outcome_status(lint_result.success),
           content       |-> "pdf_generation_failed json",
           error_type    |-> None,
           fallback_data |-> fallback_data(lint_result) ]

\* _generate_lint_pdf_report: the PDF, or the JSON fallback of its except
\* clause when anything in the report generation raises; both 200
generate_lint_pdf_report(lint_result, failure) ==
    IF failure = "none"
    THEN Response(lint_outcome_status(lint_result.success), "pdf report")
    ELSE [ status_code   |-> lint_outcome_status(lint_result.success),
           content       |-> "pdf_generation_failed json",
           error_type    |-> None,
           fallback_data |-> fallback_data(lint_result) ]

\* lint_docx_template after the linter returned
LintDocxTemplateResponse ==
    /\ pc = "returned"
    /\ request.endpoint = "lint_docx_template"
    /\ IF request.response_format = "json"
       THEN /\ response' = Response(lint_outcome_status(result.success),
                                     "lint result json")
            /\ raised' = raised
       ELSE \E failure \in ReportFailures \cup { "none" } :
               /\ response' = generate_lint_pdf_report(result, failure)
               /\ raised' = IF failure = "none" THEN raised
                             ELSE raised \cup { failure }
    /\ pc' = "responded"
    /\ UNCHANGED << file, options, structured_text, syntax_errors, errors, warnings,
                    result, exception, previous, disk, request >>
    /\ UNCHANGED << markdown_content, temp, other >>

\* open(path, 'wb') and the writes: the file now holds these bytes
Written(writer, bytes) == [ exists |-> TRUE, writer |-> writer, bytes |-> bytes ]

\* the document that document.save(file_path) writes: the template rendered
RenderedFrom(bytes) == [ opens |-> TRUE, text |-> <<>>, rendered_from |-> bytes ]

\* the PDF the converter makes of a document
PdfOf(bytes) == [ pdf_of |-> bytes ]

\* process_base64_image: whether it raised, and the temporary files it left
\* behind.  Its first statement reads image_data.data, which raises
\* AttributeError for a dict before any temporary file is created; for an
\* ImageData the file is created, and unlinked again by the except clause
\* when a later statement raises
process_base64_image(image_data, image_name) ==
    IF IsDict(image_data) THEN [ raised |-> TRUE, files |-> {} ]
    ELSE IF image_data.valid THEN [ raised |-> FALSE, files |-> { image_name } ]
    ELSE [ raised |-> TRUE, files |-> {} ]

\* process_images from the k-th image on, files being the temporary files of
\* the images before it: the exception of an image is raised again, and the
\* files of the earlier images stay
RECURSIVE process_images(_, _, _)
process_images(images_data, k, files) ==
    IF k > Len(images_data) THEN [ raised |-> FALSE, files |-> files ]
    ELSE LET image == process_base64_image(images_data[k], k)
         IN  IF image.raised THEN [ raised |-> TRUE, files |-> files ]
             ELSE process_images(images_data, k + 1, files \cup image.files)

\* a finally clause that removes the image files only
finally_cleanup_images_only(t, processed_images) ==
    [ t EXCEPT !.images = @ \ processed_images ]

\* the finally clause of process_document_template, and the os.remove of the
\* exits before it: file_path is removed when it exists, and so are the
\* temporary files of processed_images when that local was assigned
finally_cleanup(t, processed_images) ==
    [ t EXCEPT !.template = NoTempFile, !.images = @ \ processed_images ]

\* a lint stage that lets every template through
lint_gate_open(success) == TRUE

\* `if not lint_result.success:` returns the report; only a result with
\* success = true goes on to stage 2
lint_gate(success) == success

\* the error_type handle_template_error gives an exception
TemplateErrorTypes ==
    { "template_syntax_error", "undefined_variable", "template_runtime_error",
      "template_not_found", "template_error", "template_document_corruption",
      "unknown_template_error" }

\* the error_type of the answers of stage 5
ConversionErrorTypes ==
    { "gotenberg_conversion_failed", "empty_pdf_response", "invalid_pdf_response",
      "gotenberg_timeout", "gotenberg_connection_error", "pdf_conversion_error" }

\* process_document_template up to the end of stage 1: input validation
\* (json.dumps of the parsed template data cannot fail, so the
\* invalid_json_data answer is left out), then the upload written to
\* temp/<sanitized filename>
ProcessDocumentTemplate ==
    /\ pc = "request"
    /\ request.endpoint = "process_document_template"
    /\ IF request.filename = ""
       THEN /\ response' = create_error_response("missing_file", 400)
            /\ pc' = "responded"
            /\ UNCHANGED << raised, temp >>
       ELSE IF ~EndsWithDocx(request.filename)
       THEN /\ response' = create_error_response("invalid_file_type", 400)
            /\ pc' = "responded"
            /\ UNCHANGED << raised, temp >>
       ELSE IF request.data = "empty"
       THEN /\ response' = create_error_response("missing_template_data", 400)
            /\ pc' = "responded"
            /\ UNCHANGED << raised, temp >>
       ELSE \E save_raises \in BOOLEAN :
               IF save_raises
               THEN /\ response' = create_error_response("file_save_error", 500)
                    /\ pc' = "responded"
                    /\ raised' = raised \cup { "aiofiles.open" }
                    /\ temp' = finally_cleanup(temp, {})
               ELSE IF request.file_size > MaxProcessBytes
               THEN /\ response' = create_error_response("file_too_large", 500)
                    /\ pc' = "responded"
                    /\ raised' = raised
                    /\ temp' = finally_cleanup(temp, {})
               ELSE /\ temp' = [ temp EXCEPT !.template = Written("this", file) ]
                    /\ pc' = "read_template"
                    /\ UNCHANGED << raised, response >>
    /\ UNCHANGED << file, options, structured_text, syntax_errors, errors, warnings,
                    result, exception, previous, disk, request >>
    /\ UNCHANGED << markdown_content, other >>

\* Stage 1.5 up to the call of the linter: the options, and the bytes read
\* back from file_path; an exception here is answered by the except clause
\* of the stage with the linting_service_error JSON
ReadTemplateForLint ==
    /\ pc = "read_template"
    /\ \E read_raises \in BOOLEAN :
          IF read_raises \/ ~temp.template.exists
          THEN /\ response' = Response(lint_outcome_status(FALSE),
                                       "linting_service_error json")
               /\ pc' = "responded"
               /\ raised' = raised \cup { "open" }
               /\ temp' = finally_cleanup(temp, {})
               /\ UNCHANGED << file, options >>
          ELSE /\ options' = IF request.linter_options = "None" THEN DefaultOptions
                             ELSE [ dict |-> request.linter_options ]
               /\ file' = temp.template.bytes
               /\ pc' = "extract_structured_text"
               /\ UNCHANGED << raised, response, temp >>
    /\ UNCHANGED << structured_text, syntax_errors, errors, warnings, result,
                    exception, previous, disk, request >>
    /\ UNCHANGED << markdown_content, other >>

\* process_document_template after the linter returned: the report when the
\* validation failed, else on to stage 2.  `api_linter_options and
\* api_linter_options.response_format` is false for None and {} and raises
\* AttributeError for any other dict, which the except clause of the stage
\* answers with the linting_service_error JSON.
ProcessLintOutcome ==
    /\ pc = "returned"
    /\ request.endpoint = "process_document_template"
    /\ IF lint_gate(result.success)
       THEN /\ pc' = "load_template"
            /\ UNCHANGED << response, raised, temp >>
       ELSE /\ pc' = "responded"
            /\ temp' = finally_cleanup(temp, {})
            /\ IF request.linter_options \in { "None", "{}" }
               THEN \E failure \in ReportFailures \cup { "none" } :
                       /\ response' = generate_lint_pdf_report(result, failure)
                       /\ raised' = IF failure = "none" THEN raised
                                     ELSE raised \cup { failure }
               ELSE /\ response' = Response(lint_outcome_status(result.success),
                                            "linting_service_error json")
                    /\ raised' = raised \cup { "response_format" }
    /\ UNCHANGED << file, options, structured_text, syntax_errors, errors, warnings,
                    result, exception, previous, disk, request >>
    /\ UNCHANGED << markdown_content, other >>

\* Stage 2: DocxTemplate(file_path), and process_images when the request
\* carries images
LoadTemplate ==
    /\ pc = "load_template"
    /\ \E load_raises \in BOOLEAN, error_type \in TemplateErrorTypes :
          LET processed == process_images(request.images, 1, {})
          IN  IF load_raises
              THEN /\ response' = create_error_response(error_type, 400)
                   /\ pc' = "responded"
                   /\ raised' = raised \cup { "DocxTemplate" }
                   /\ temp' = finally_cleanup(temp, {})
              ELSE IF request.images # <<>> /\ processed.raised
              THEN /\ error_type = "unknown_template_error"
                   /\ response' = create_error_response(error_type, 400)
                   /\ pc' = "responded"
                   /\ raised' = raised \cup { "process_images" }
                   /\ temp' = finally_cleanup(
                                  [ temp EXCEPT !.images = @ \cup processed.files ], {})
              ELSE /\ error_type = "unknown_template_error"
                   /\ temp' = [ temp EXCEPT !.images = @ \cup processed.files ]
                   /\ pc' = "render_template"
                   /\ UNCHANGED << raised, response >>
    /\ UNCHANGED << file, options, structured_text, syntax_errors, errors, warnings,
                    result, exception, previous, disk, request >>
    /\ UNCHANGED << markdown_content, other >>

\* Stage 3: document.render(...)
RenderTemplate ==
    /\ pc = "render_template"
    /\ \E render_raises \in BOOLEAN, error_type \in TemplateErrorTypes :
          IF render_raises
          THEN /\ response' = create_error_response(error_type, 400)
               /\ pc' = "responded"
               /\ raised' = raised \cup { "document.render" }
               /\ temp' = finally_cleanup(temp, temp.images)
          ELSE /\ error_type = "unknown_template_error"
               /\ pc' = "save_document"
               /\ UNCHANGED << raised, response, temp >>
    /\ UNCHANGED << file, options, structured_text, syntax_errors, errors, warnings,
                    result, exception, previous, disk, request >>
    /\ UNCHANGED << markdown_content, other >>

\* Stage 4: document.save(file_path) writes the rendered document over the
\* upload
SaveRenderedDocument ==
    /\ pc = "save_document"
    /\ \E save_raises \in BOOLEAN :
          IF save_raises
          THEN /\ response' = create_error_response("document_save_error", 500)
               /\ pc' = "responded"
               /\ raised' = raised \cup { "document.save" }
               /\ temp' = finally_cleanup(temp, temp.images)
          ELSE /\ temp' = [ temp EXCEPT !.template = Written("this", RenderedFrom(file)) ]
               /\ pc' = "convert_to_pdf"
               /\ UNCHANGED << raised, response >>
    /\ UNCHANGED << file, options, structured_text, syntax_errors, errors, warnings,
                    result, exception, previous, disk, request >>
    /\ UNCHANGED << markdown_content, other >>

\* Stage 5: the rendered document posted to the converter; every failure is
\* answered with status 500
ConvertToPdf ==
    /\ pc = "convert_to_pdf"
    /\ \E error_type \in ConversionErrorTypes \cup { "none" } :
          IF error_type # "none"
          THEN /\ response' = create_error_response(error_type, 500)
               /\ pc' = "responded"
               /\ raised' = raised \cup { "convert_to_pdf" }
               /\ temp' = finally_cleanup(temp, temp.images)
          ELSE /\ pc' = "save_pdf"
               /\ UNCHANGED << raised, response, temp >>
    /\ UNCHANGED << file, options, structured_text, syntax_errors, errors, warnings,
                    result, exception, previous, disk, request >>
    /\ UNCHANGED << markdown_content, other >>

\* Stage 6: the PDF written to temp/<base name>.pdf
SavePdf ==
    /\ pc = "save_pdf"
    /\ \E save_raises \in BOOLEAN :
          IF save_raises
          THEN /\ response' = create_error_response("pdf_save_error", 500)
               /\ pc' = "responded"
               /\ raised' = raised \cup { "pdf_save_error" }
               /\ temp' = finally_cleanup(temp, temp.images)
          ELSE /\ temp' = [ temp EXCEPT !.pdf = Written("this", PdfOf(RenderedFrom(file))) ]
               /\ pc' = "return_pdf"
               /\ UNCHANGED << raised, response >>
    /\ UNCHANGED << file, options, structured_text, syntax_errors, errors, warnings,
                    result, exception, previous, disk, request >>
    /\ UNCHANGED << markdown_content, other >>

\* Success: return FileResponse(pdf_file_path), then the finally clause
ReturnPdf ==
    /\ pc = "return_pdf"
    /\ response' = Response(200, "pdf file")
    /\ temp' = finally_cleanup(temp, temp.images)
    /\ pc' = "responded"
    /\ UNCHANGED << file, options, structured_text, syntax_errors, errors, warnings,
                    raised, result, exception, previous, disk, request >>
    /\ UNCHANGED << markdown_content, other >>

EndpointNext ==
    \/ LintDocxTemplate
    \/ ProcessDocumentTemplate
    \/ ReadTemplateForLint
    \/ Next
    \/ LintDocxTemplateResponse
    \/ ProcessLintOutcome
    \/ LoadTemplate
    \/ RenderTemplate
    \/ SaveRenderedDocument
    \/ ConvertToPdf
    \/ SavePdf
    \/ ReturnPdf

EndpointSpec == EndpointInit /\ [][EndpointNext]_vars

Responded == pc = "responded"

\* the linter was called for this request
LinterInvoked ==
    \/ result # NoResult
    \/ pc \in { "extract_structured_text", "find_unmatched_tags", "stage3",
                 "process_extended_tags", "save_debug_output",
                 "find_missing_variables", "convert_json_to_lint_result",
                 "except", "returned" }

\* document.read() raised
ReadRaised == "document.read" \in raised

\* the response is the 400 of create_error_response with this error_type,
\* and the linter was not called
Rejected(error_type) ==
    /\ response.status_code = 400
    /\ response.error_type = error_type
    /\ ~LinterInvoked

\* C19: lint-docx-template validates in a fixed order (filename missing or
\* empty, extension not .docx, size above 10 MB, size zero); the first
\* failing check decides: status 400 with error_type missing_file,
\* invalid_file_type, file_too_large, empty_file; the linter is never
\* invoked for a failing upload.
C19_ValidationOrder ==
    ( Responded /\ request.endpoint = "lint_docx_template" ) =>
        IF request.filename = "" THEN Rejected("missing_file")
        ELSE IF ~EndsWithDocx(request.filename) THEN Rejected("invalid_file_type")
        ELSE IF ReadRaised THEN response.status_code = 500 /\ ~LinterInvoked
        ELSE IF request.file_size > 10 * 1024 * 1024 THEN Rejected("file_too_large")
        ELSE IF request.file_size = 0 THEN Rejected("empty_file")
        ELSE response.status_code # 400 /\ LinterInvoked

\* C19 witness: an upload that fails both the extension check and the
\* empty-file check was answered by the earlier of the two.
C19_Witness ==
    /\ Responded
    /\ request.endpoint = "lint_docx_template"
    /\ request.filename = "notes.txt"
    /\ request.file_size = 0
    /\ Rejected("invalid_file_type")

\* the body of the response is JSON
JsonContent ==
    response.content \in { "lint result json", "pdf_generation_failed json",
                           "linting_service_error json" }

NoOptionsSupplied ==
    /\ request.endpoint = "lint_docx_template"
    /\ request.response_format = "pdf"
    /\ options = DefaultOptions

\* C21: a lint request for a valid .docx that supplies no options receives
\* status 200 with a JSON body that is the LintResult (top-level fields
\* success, errors, warnings, summary, template_preview), with success true
\* and summary.total_errors 0.
C21_NoOptionsAnswersLintResultJson ==
    ( /\ Responded
      /\ NoOptionsSupplied
      /\ LinterInvoked
      /\ raised = {}
      /\ file.opens
      /\ WellFormed(file.text) )
    => /\ response.status_code = 200
       /\ response.content = "lint result json"
       /\ result.success
       /\ result.summary.total_errors = 0

\* the generation of the PDF lint report failed at one of its steps
ReportFailed == raised \cap ReportFailures # {}

\* C23: if generating the PDF lint report fails at any step (converter URL
\* not configured, non-200 converter status, an answer that is no PDF, any
\* exception), the response is status 200 JSON pdf_generation_failed whose
\* fallback_data carries the lint result's success flag, its errors and its
\* total_errors, total_warnings and completeness_score; no exception reaches
\* the caller.
C23_ReportFailureFallsBackToJson ==
    ( Responded /\ ReportFailed ) =>
        /\ response.content = "pdf_generation_failed json"
        /\ response.status_code = 200
        /\ response.fallback_data.success = result.success
        /\ Len(response.fallback_data.errors) = Len(result.errors)
        /\ \A i \in 1..Len(result.errors) :
              /\ response.fallback_data.errors[i].line_number = result.errors[i].line_number
              /\ response.fallback_data.errors[i].error_type = result.errors[i].error_type
              /\ response.fallback_data.errors[i].message = result.errors[i].message
        /\ response.fallback_data.summary.total_errors = result.summary.total_errors
        /\ response.fallback_data.summary.total_warnings = result.summary.total_warnings
        /\ response.fallback_data.summary.completeness_score =
               result.summary.completeness_score

\* C23 witness: the converter URL was not configured when the report of a
\* template with one error was to be made, and the JSON fallback with that
\* error was the answer.
C23_Witness ==
    /\ Responded
    /\ "gotenberg_not_configured" \in raised
    /\ ~result.success
    /\ Len(result.errors) = 1
    /\ response.content = "pdf_generation_failed json"
    /\ Len(response.fallback_data.errors) = 1

\* the positions of stages 2 to 6 and of the successful return
RenderPcs ==
    { "load_template", "render_template", "save_document", "convert_to_pdf",
      "save_pdf", "return_pdf" }

\* the error_type of the answers of stages 2 to 6
RenderErrorTypes ==
    TemplateErrorTypes \cup ConversionErrorTypes
        \cup { "document_save_error", "pdf_save_error" }

\* the request reached stage 2, the loading of the template, or went beyond
RenderingReached ==
    \/ pc \in RenderPcs
    \/ /\ Responded
       /\ \/ response.content = "pdf file"
          \/ response.error_type \in RenderErrorTypes
          \/ raised \cap { "DocxTemplate", "process_images", "document.render",
                           "document.save", "convert_to_pdf", "pdf_save_error" } # {}

\* the lint stage returned success = false or raised
LintFailedOrRaised ==
    \/ result # NoResult /\ ~result.success
    \/ raised \cap { "open", "response_format" } # {}

RECURSIVE OpenBlocksFrom(_, _, _, _)
OpenBlocksFrom(toks, i, open, lineno) ==
    IF i > Len(toks) THEN open
    ELSE IF toks[i] = NL THEN OpenBlocksFrom(toks, i + 1, open, lineno + 1)
    ELSE IF IsOpen(toks[i])
    THEN OpenBlocksFrom(toks, i + 1,
                        Append(open, [ name |-> toks[i].name, line |-> lineno ]),
                        lineno)
    ELSE OpenBlocksFrom(toks, i + 1, Pop(open), lineno)

\* the line of the earliest-opened if/for tag that no close tag matches
FirstUnmatchedLine(text) == OpenBlocksFrom(text, 1, <<>>, 1)[1].line

\* the parser read the text to its end and found a block still open
UnexpectedEnd(text) ==
    LET e == from_string(Preprocess(text))
    IN  e.raised /\ e.message = "Unexpected end of template"

\* C24: when the parser reports an unexpected end of template, the error's
\* line_number is the line of the first (earliest-opened) if/for tag that
\* has no matching close in the document, for every arrangement of open and
\* close tags over lines, several tags on one line and docxtpl-prefixed tags
\* included.
C24_EndOfTemplateAtFirstUnmatchedTag ==
    ( Returned /\ NoStageRaised /\ UnexpectedEnd(structured_text) ) =>
        /\ Len(result.errors) = 1
        /\ result.errors[1].line_number = FirstUnmatchedLine(structured_text)

(* ------------- exceptions of the parse other than syntax errors --------- *)

\* the parse raised an exception that is no TemplateSyntaxError, and no
\* other stage raised
OnlyParseRaisedOther == raised = { "find_unmatched_tags" }

C27_AtMostOneError ==
    Returned =>
        /\ Len(result.errors) <= 1
        /\ result.summary.completeness_score \in { 100, 80, 0 }

\* C27 witness: a document of several lines, each an open tag never closed,
\* was answered with exactly one error and the score 80.
C27_Witness ==
    /\ Returned
    /\ NoStageRaised
    /\ IsOpenChain(structured_text)
    /\ Len(TagStack(structured_text)) >= 2
    /\ Len(result.errors) = 1
    /\ result.summary.completeness_score = 80

\* the docxtpl stages and the undefined-variable check
DocxtplStages ==
    { "process_extended_tags", "save_debug_output", "find_missing_variables" }

\* C28: no LintResult returned by lint_docx_file has both errors and
\* warnings: the docxtpl stages and the undefined-variable check run only
\* when the syntax check returned zero errors, so a result with at least one
\* error always has an empty warnings list.
C28_NeverErrorsAndWarnings ==
    /\ pc \in DocxtplStages => syntax_errors = <<>> /\ errors = <<>>
    /\ Returned => ( Len(result.errors) >= 1 => result.warnings = <<>> )

\* C28 witness: with the undefined-variable check switched on, a document
\* with a syntax error was answered with the error and no warning.
C28_Witness ==
    /\ Returned
    /\ NoStageRaised
    /\ options.check_undefined_vars
    /\ syntax_errors # <<>>
    /\ Len(result.errors) = 1
    /\ result.warnings = <<>>
    /\ result.summary.total_warnings = 0

(* ------------------ the markdown report: _escape_markdown --------------- *)

\* longest message of an issue, counted in characters
MaxMessageLen == 3

\* the characters messages are drawn from: two that precede the backslash in
\* chars_to_escape, the backslash, two that follow it, and one that is not
\* in the list
MessageChars == { "|", "*", "\\", ".", "!", "a" }

\* the grave accent, a character no string of this module can hold
GraveAccent == "grave accent"

\* chars_to_escape, in the order of the source
chars_to_escape ==
    << "|", "*", "_", GraveAccent, "\\", "[", "]", "(", ")", "#", "+", "-", ".", "!" >>

\* text.replace(char, '\\' + char) for a single character char
RECURSIVE replace(_, _)
replace(text, char) ==
    IF text = <<>> THEN <<>>
    ELSE (IF Head(text) = char THEN << "\\", char >> ELSE << Head(text) >>)
         \o replace(Tail(text), char)

\* the loop `for char in chars_to_escape` from its k-th round on
RECURSIVE EscapeFrom(_, _)
EscapeFrom(text, k) ==
    IF k > Len(chars_to_escape) THEN text
    ELSE EscapeFrom(replace(text, chars_to_escape[k]), k + 1)

\* _escape_markdown
escape_markdown(text) == IF text = <<>> THEN <<>> ELSE EscapeFrom(text, 1)

\* a LintResult with one error that carries the given message
ResultWithMessage(message) ==
    convert_json_to_lint_result(
        << [ error_type |-> "syntax_error", line_number |-> 1,
             tag_name |-> None, message |-> message ] >>,
        <<>>, <<>>, DefaultOptions)

\* create_lint_report_markdown is about to build the table of the errors of
\* a result
EscapeInit ==
    /\ file = [ opens |-> TRUE, text |-> <<>> ]
    /\ options = DefaultOptions
    /\ pc = "create_issues_table"
    /\ structured_text = <<>>
    /\ syntax_errors = <<>>
    /\ errors = <<>>
    /\ warnings = <<>>
    /\ raised = {}
    /\ result \in { ResultWithMessage(m) : m \in SeqsUpTo(MessageChars, MaxMessageLen) }
    /\ exception = NoException
    /\ previous = NoPrevious
    /\ disk = NoFile
    /\ request = NoRequest
    /\ response = NoResponse
    /\ markdown_content = NoMarkdown
    /\ temp = NoTemp
    /\ other = NoOther

\* _create_issues_table: the description of each issue is its message after
\* _escape_markdown
CreateIssuesTable ==
    /\ pc = "create_issues_table"
    /\ markdown_content' = [ i \in 1..Len(result.errors) |->
                               escape_markdown(result.errors[i].message) ]
    /\ pc' = "issues_table_created"
    /\ UNCHANGED << file, options, structured_text, syntax_errors, errors, warnings,
                    raised, result, exception, previous, disk, request, response,
                    temp, other >>

EscapeSpec == EscapeInit /\ [][CreateIssuesTable]_vars

\* the listed special characters
SpecialChars == { chars_to_escape[k] : k \in 1..Len(chars_to_escape) }

\* the text with one backslash added before every special character
RECURSIVE OneBackslashEach(_)
OneBackslashEach(text) ==
    IF text = <<>> THEN <<>>
    ELSE (IF Head(text) \in SpecialChars THEN << "\\", Head(text) >> ELSE << Head(text) >>)
         \o OneBackslashEach(Tail(text))

\* C26: in the output of _escape_markdown every occurrence of each listed
\* special character of the input is preceded by exactly one added
\* backslash, and all other characters are unchanged and in order.
C26_EscapeAddsOneBackslash ==
    pc = "issues_table_created" =>
        \A i \in 1..Len(result.errors) :
            markdown_content[i] = OneBackslashEach(result.errors[i].message)

(* ---------- two process-template-document requests, one file name ------- *)

\* The handler builds file_path = temp/<sanitized filename> and pdf_file_path
\* = temp/<base name>.pdf from the upload's name alone, so two requests whose
\* names sanitize to the same name work on the same two paths.  The handler
\* is a coroutine: another request runs only while this one is suspended in
\* an await that really suspends, which are the aiofiles calls of the upload
\* (stage 1) and of the PDF (stage 6); lint_docx_file, docxtpl and
\* requests.post do not suspend.

\* the template the other request uploads: two lines, which no template of
\* this request has
OtherUpload == [ opens |-> TRUE, text |-> << NL, NL >> ]

\* a file just opened with 'wb': truncated, nothing written yet
Truncated == [ opens |-> FALSE, text |-> <<>> ]

\* the positions of the lint stage
LintPcs ==
    { "extract_structured_text", "find_unmatched_tags", "stage3",
      "process_extended_tags", "save_debug_output", "find_missing_variables",
      "convert_json_to_lint_result", "except", "returned" }

\* the positions at which this request is suspended in an aiofiles call:
\* the close of the uploaded file, and the close of the PDF
SuspensionPoints == { "read_template", "return_pdf" }

\* the other request can run: this one has not started, or is suspended
OtherCanRun == pc \in { "request" } \cup SuspensionPoints

\* both requests are accepted by the input validation, carry the same file
\* name and different templates
ProcessConcurrentInit ==
    /\ file \in EndpointFiles \ { OtherUpload }
    /\ request \in
          [ endpoint : { "process_document_template" },
            filename : { "template.docx", "TEMPLATE.DOCX" },
            file_size : { 1, MaxLintBytes }, data : { "given" },
            linter_options : { "None", "{}" },
            images : { ImagesData(n) : n \in 0..MaxImages },
            upload : { file } ]
    /\ options = DefaultOptions
    /\ pc = "request"
    /\ structured_text = <<>>
    /\ syntax_errors = <<>>
    /\ errors = <<>>
    /\ warnings = <<>>
    /\ raised = {}
    /\ result = NoResult
    /\ exception = NoException
    /\ previous = NoPrevious
    /\ disk = NoFile
    /\ response = NoResponse
    /\ markdown_content = NoMarkdown
    /\ temp = NoTemp
    /\ other = "request"

\* the other request: aiofiles.open(file_path, 'wb') truncates the file
OtherOpen ==
    /\ OtherCanRun
    /\ other = "request"
    /\ temp' = [ temp EXCEPT !.template = Written("other", Truncated) ]
    /\ other' = "opened"
    /\ UNCHANGED << file, options, pc, structured_text, syntax_errors, errors,
                    warnings, raised, result, exception, previous, disk, request,
                    response, markdown_content >>

\* the other request: its chunks written
OtherWrite ==
    /\ OtherCanRun
    /\ other = "opened"
    /\ temp' = [ temp EXCEPT !.template = Written("other", OtherUpload) ]
    /\ other' = "uploaded"
    /\ UNCHANGED << file, options, pc, structured_text, syntax_errors, errors,
                    warnings, raised, result, exception, previous, disk, request,
                    response, markdown_content >>

\* the other request, from the close of its upload to the open of its PDF,
\* without suspension: it reads file_path back, lints it, and either removes
\* the file and answers (the file is missing or fails the validation) or
\* saves the rendered document over it and converts that
OtherLintAndRender ==
    /\ OtherCanRun
    /\ other = "uploaded"
    /\ \E passes \in BOOLEAN :
          IF passes /\ temp.template.exists
          THEN /\ temp' = [ temp EXCEPT !.template =
                               Written("other", RenderedFrom(temp.template.bytes)) ]
               /\ other' = "rendered"
          ELSE /\ temp' = finally_cleanup(temp, {})
               /\ other' = "done"
    /\ UNCHANGED << file, options, pc, structured_text, syntax_errors, errors,
                    warnings, raised, result, exception, previous, disk, request,
                    response, markdown_content >>

\* the other request: stage 6, the PDF of the document it rendered written
\* to pdf_file_path
OtherSavePdf ==
    /\ OtherCanRun
    /\ other = "rendered"
    /\ temp' = [ temp EXCEPT !.pdf = Written("other", PdfOf(RenderedFrom(OtherUpload))) ]
    /\ other' = "pdf_saved"
    /\ UNCHANGED << file, options, pc, structured_text, syntax_errors, errors,
                    warnings, raised, result, exception, previous, disk, request,
                    response, markdown_content >>

\* the other request returns: its finally clause removes file_path
OtherReturn ==
    /\ OtherCanRun
    /\ other = "pdf_saved"
    /\ temp' = finally_cleanup(temp, {})
    /\ other' = "done"
    /\ UNCHANGED << file, options, pc, structured_text, syntax_errors, errors,
                    warnings, raised, result, exception, previous, disk, request,
                    response, markdown_content >>

ProcessConcurrentNext ==
    \/ ProcessDocumentTemplate
    \/ ReadTemplateForLint
    \/ Next
    \/ ProcessLintOutcome
    \/ LoadTemplate
    \/ RenderTemplate
    \/ SaveRenderedDocument
    \/ ConvertToPdf
    \/ SavePdf
    \/ ReturnPdf
    \/ OtherOpen
    \/ OtherWrite
    \/ OtherLintAndRender
    \/ OtherSavePdf
    \/ OtherReturn

ProcessConcurrentSpec == ProcessConcurrentInit /\ [][ProcessConcurrentNext]_vars

\* this request's working file holds what this request wrote to it
OwnWorkingFile == temp.template.exists /\ temp.template.writer = "this"

\* C30: two concurrent process-template-document requests whose filenames
\* sanitize to the same name do not interfere under any interleaving at
\* their suspension points: each request lints and renders the bytes it
\* uploaded itself, its working file is not truncated, overwritten or
\* removed by the other request while still in use, and the PDF it returns
\* is the one produced from its own template and data.
C30_SameNameRequestsDoNotInterfere ==
    /\ pc \in LintPcs \cup RenderPcs => file = request.upload
    /\ pc \in { "read_template" } \cup RenderPcs => OwnWorkingFile
    /\ ( Responded /\ response.content = "pdf file" ) =>
          /\ temp.pdf.exists
          /\ temp.pdf.writer = "this"
          /\ temp.pdf.bytes = PdfOf(RenderedFrom(request.upload))

====
